---- MODULE Spec2Model ----
(***************************************************************************)
(* Model of the DEFLATE64 bridge (pkg/deflate64/deflate64_bridge.c): the   *)
(* decoder handle, its lifecycle (new / init / free), the pull and push    *)
(* hooks handed to the engine, and the incremental inflate driver with its *)
(* outcome classification.                                                 *)
(*                                                                         *)
(* The engine itself (inflateBack9Init / inflateBack9 / inflateBack9End)   *)
(* is not part of the bridge source.  It is modelled through its call-back *)
(* interface: it takes its first input from stream.next_in/avail_in, calls *)
(* the pull hook when it has none left, collects decoded bytes in the      *)
(* window and hands the window to the push hook when it is full and at     *)
(* stream end, stops with Z_BUF_ERROR when a hook fails, and passes back   *)
(* the unused input in next_in/avail_in.  The bit stream is abstracted to  *)
(* one symbol per input byte: a literal, the end-of-stream symbol, or an   *)
(* invalid code.                                                           *)
(***************************************************************************)
EXTENDS Integers, Sequences, FiniteSets, TLC

\* ---------------------------------------------------------------- bounds
\* longest input buffer / compressed stream handed to one call
MaxIn == 4
\* largest output buffer handed to one call
MaxOut == 3
\* most driver calls in one decoding session of the streaming caller
MaxCalls == 6

\* -------------------------------------------------------------- constants
\* UINT_MAX, the largest single transfer of the engine interface, scaled to
\* a 2-bit unsigned (2^2 - 1)
UINT_MAX == 3
\* size of the sliding window (65536 in the source), scaled
WSIZE == 2

\* zlib status codes
Z_OK == "Z_OK"
Z_STREAM_END == "Z_STREAM_END"
Z_STREAM_ERROR == "Z_STREAM_ERROR"
Z_DATA_ERROR == "Z_DATA_ERROR"
Z_MEM_ERROR == "Z_MEM_ERROR"
Z_BUF_ERROR == "Z_BUF_ERROR"

\* null pointer
\* status codes the bridge has no text of its own for
Z_NEED_DICT == "Z_NEED_DICT"
Z_ERRNO == "Z_ERRNO"
Z_VERSION_ERROR == "Z_VERSION_ERROR"

Z_NULL == "NULL"
\* a pointer into the call's input buffer is <<offset>>; the null one is <<>>
NO_INPUT == <<>>

\* ------------------------------------------------------ abstract bit stream
\* literal symbols, the end-of-stream symbol and an invalid code
Lit == {"a", "b"}
END == "E"
BAD == "X"
Byte == Lit \cup {END, BAD}

\* all sequences over S of length at most n
RECURSIVE SeqUpTo(_, _)
SeqUpTo(S, n) ==
  IF n = 0 THEN {<<>>}
  ELSE LET shorter == SeqUpTo(S, n - 1)
       IN shorter \cup {Append(s, x) : s \in {t \in shorter : Len(t) = n - 1}, x \in S}

\* a valid compressed stream: literals followed by the end-of-stream symbol
ValidStreams == {Append(p, END) : p \in SeqUpTo(Lit, MaxIn - 1)}
\* the payload a valid stream encodes
Payload(B) == SubSeq(B, 1, Len(B) - 1)

Min(a, b) == IF a < b THEN a ELSE b

\* content of a fresh caller output buffer of n bytes (nothing written yet)
Blank(n) == [i \in 1..n |-> "_"]

\* ------------------------------------------------- struct btidy_deflate64_state
\* a handle as calloc returns it: every field zero
ZeroState ==
  [ stream |-> [next_in |-> NO_INPUT, avail_in |-> 0, state |-> Z_NULL, msg |-> Z_NULL,
                zalloc |-> Z_NULL, zfree |-> Z_NULL],
    window |-> Z_NULL,
    input |-> Z_NULL, input_len |-> 0, input_offset |-> 0,
    output |-> <<>>, output_len |-> 0, output_offset |-> 0,
    output_overflow |-> 0,
    initialized |-> 0,
    \* bookkeeping, not fields of the struct: a write past the end of the
    \* caller's output buffer, and the bytes the engine offered to the push hook
    oob |-> FALSE,
    offered |-> <<>>,
    \* and of the engine run of the call: how many input bytes it consumed,
    \* how many distinct positions of the input those were, and whether a
    \* position was presented to it twice
    eaten |-> 0,
    distinct |-> 0,
    dup |-> FALSE ]

\* ------------------------------------------------------------------ hooks
\* the pull hook without the cap on the length of a slice
btidy_infback9_in_uncapped(state) ==
  IF state.input_offset >= state.input_len
  THEN [state |-> state, buf |-> NO_INPUT, n |-> 0]
  ELSE LET remaining == state.input_len - state.input_offset
       IN [state |-> [state EXCEPT !.input_offset = @ + remaining],
           buf |-> <<state.input_offset>>,
           n |-> remaining]

\* the pull hook: the next slice of the call's input
btidy_infback9_in(state) ==
  IF state.input_offset >= state.input_len
  THEN [state |-> state, buf |-> NO_INPUT, n |-> 0]
  ELSE LET remaining == Min(state.input_len - state.input_offset, UINT_MAX)
       IN [state |-> [state EXCEPT !.input_offset = @ + remaining],
           buf |-> <<state.input_offset>>,
           n |-> remaining]

\* the push hook without the cap on to_copy (the whole offer is copied)
btidy_infback9_out_uncapped(state, buf, len) ==
  LET to_copy == len
      off == state.output_offset
      copied == [i \in 1..Len(state.output) |->
                   IF i > off /\ i <= off + to_copy THEN buf[i - off]
                   ELSE state.output[i]]
      s1 == [state EXCEPT !.output = IF to_copy > 0 THEN copied ELSE @,
                          !.oob = @ \/ (to_copy > 0 /\ off + to_copy > state.output_len),
                          !.output_offset = @ + to_copy,
                          !.offered = @ \o SubSeq(buf, 1, len)]
  IN [state |-> s1, r |-> 0]

\* the push hook that copies an offer only if all of it fits
btidy_infback9_out_all_or_nothing(state, buf, len) ==
  LET remaining == state.output_len - state.output_offset
      to_copy == IF len > remaining THEN 0 ELSE len
      off == state.output_offset
      copied == [i \in 1..Len(state.output) |->
                   IF i > off /\ i <= off + to_copy THEN buf[i - off]
                   ELSE state.output[i]]
      s1 == [state EXCEPT !.output = IF to_copy > 0 THEN copied ELSE @,
                          !.oob = @ \/ (to_copy > 0 /\ off + to_copy > state.output_len),
                          !.output_offset = @ + to_copy,
                          !.offered = @ \o SubSeq(buf, 1, len)]
  IN IF to_copy < len
     THEN [state |-> [s1 EXCEPT !.output_overflow = 1], r |-> 1]
     ELSE [state |-> s1, r |-> 0]

\* the push hook that signals overflow as soon as the buffer is full
btidy_infback9_out_full_is_overflow(state, buf, len) ==
  LET remaining == state.output_len - state.output_offset
      to_copy == IF len > remaining THEN remaining ELSE len
      off == state.output_offset
      copied == [i \in 1..Len(state.output) |->
                   IF i > off /\ i <= off + to_copy THEN buf[i - off]
                   ELSE state.output[i]]
      s1 == [state EXCEPT !.output = IF to_copy > 0 THEN copied ELSE @,
                          !.oob = @ \/ (to_copy > 0 /\ off + to_copy > state.output_len),
                          !.output_offset = @ + to_copy,
                          !.offered = @ \o SubSeq(buf, 1, len)]
  IN IF to_copy >= remaining
     THEN [state |-> [s1 EXCEPT !.output_overflow = 1], r |-> 1]
     ELSE [state |-> s1, r |-> 0]

\* the push hook: copy what fits of buf[0..len) to the output buffer
btidy_infback9_out(state, buf, len) ==
  LET remaining == state.output_len - state.output_offset
      to_copy == IF len > remaining THEN remaining ELSE len
      off == state.output_offset
      copied == [i \in 1..Len(state.output) |->
                   IF i > off /\ i <= off + to_copy THEN buf[i - off]
                   ELSE state.output[i]]
      s1 == [state EXCEPT !.output = IF to_copy > 0 THEN copied ELSE @,
                          !.oob = @ \/ (to_copy > 0 /\ off + to_copy > state.output_len),
                          !.output_offset = @ + to_copy,
                          !.offered = @ \o SubSeq(buf, 1, len)]
  IN IF to_copy < len
     THEN [state |-> [s1 EXCEPT !.output_overflow = 1], r |-> 1]
     ELSE [state |-> s1, r |-> 0]

\* ----------------------------------------------------------------- engine
\* inflateBack9Init: allocate the engine context through stream.zalloc and
\* bind it to the window; ctxOK is whether that allocation succeeds
inflateBack9Init(state, ctxOK) ==
  IF state.window = Z_NULL THEN [state |-> state, ret |-> Z_STREAM_ERROR, allocs |-> <<>>]
  ELSE IF ~ctxOK THEN [state |-> state, ret |-> Z_MEM_ERROR, allocs |-> <<>>]
  ELSE [state |-> [state EXCEPT !.stream.state = "ctx"], ret |-> Z_OK,
        allocs |-> <<"engine">>]

\* inflateBack9End: free the engine context
inflateBack9End(state) ==
  IF state.stream.state = Z_NULL \/ state.stream.zfree = Z_NULL
  THEN [state |-> state, ret |-> Z_STREAM_ERROR, frees |-> <<>>]
  ELSE [state |-> [state EXCEPT !.stream.state = Z_NULL], ret |-> Z_OK,
        frees |-> <<"engine">>]

\* the engine leaves its run: unused input is passed back in the stream
\* (stop records why the run ended; it is not part of the interface)
inf_leave(m, ret, stop) ==
  [state |-> [m.state EXCEPT !.stream.next_in = m.next, !.stream.avail_in = m.have,
                             !.eaten = m.eaten, !.distinct = Cardinality(m.seen),
                             !.dup = m.dup],
   ret |-> ret, stop |-> stop]

\* the decoding loop of one engine run.  m.next/m.have: the input slice in
\* hand; m.win: the bytes put in the window and not yet handed to the push
\* hook; m.mem: the caller's input buffer the slices point into; m.shown,
\* m.seen, m.eaten, m.dup: the input positions presented and consumed so far
RECURSIVE inflateBack9_loop(_)
inflateBack9_loop(m) ==
  IF m.have = 0
  THEN \* PULL: ask the pull hook for more input
       LET p == btidy_infback9_in(m.state)
       IN IF p.n = 0
          THEN inf_leave([m EXCEPT !.state = p.state, !.next = NO_INPUT], Z_BUF_ERROR, "in")
          ELSE LET slice == {p.buf[1] + i : i \in 0..(p.n - 1)}
               IN inflateBack9_loop([m EXCEPT !.state = p.state, !.next = p.buf,
                                              !.have = p.n,
                                              !.dup = @ \/ (slice \cap m.shown # {}),
                                              !.shown = @ \cup slice])
  ELSE LET sym == m.mem[m.next[1] + 1]
           m1 == [m EXCEPT !.next = <<@[1] + 1>>, !.have = @ - 1,
                           !.eaten = @ + 1, !.seen = @ \cup {m.next[1]}]
       IN IF sym = BAD
          THEN inf_leave([m1 EXCEPT !.state.stream.msg = "invalid code"],
                         Z_DATA_ERROR, "data")
          ELSE IF sym = END
          THEN \* stream end: write the leftover output
               IF Len(m1.win) > 0
               THEN LET o == btidy_infback9_out(m1.state, m1.win, Len(m1.win))
                    IN IF o.r # 0
                       THEN inf_leave([m1 EXCEPT !.state = o.state], Z_BUF_ERROR, "out")
                       ELSE inf_leave([m1 EXCEPT !.state = o.state], Z_STREAM_END, "end")
               ELSE inf_leave(m1, Z_STREAM_END, "end")
          ELSE \* a literal.  ROOM: a full window goes to the push hook first
               IF Len(m1.win) = WSIZE
               THEN LET o == btidy_infback9_out(m1.state, m1.win, WSIZE)
                    IN IF o.r # 0
                       THEN inf_leave([m1 EXCEPT !.state = o.state], Z_BUF_ERROR, "out")
                       ELSE inflateBack9_loop([m1 EXCEPT !.state = o.state, !.win = <<sym>>])
               ELSE inflateBack9_loop([m1 EXCEPT !.win = Append(@, sym)])

\* inflateBack9: one engine run.  Without an engine context it refuses to
\* run; otherwise it resets its decoding state and decodes from the input
\* found in the stream, then from the pull hook
inflateBack9(state, mem) ==
  IF state.stream.state = Z_NULL
  THEN [state |-> state, ret |-> Z_STREAM_ERROR, stop |-> "nostate"]
  ELSE LET have == IF state.stream.next_in # NO_INPUT THEN state.stream.avail_in ELSE 0
       IN inflateBack9_loop(
            [state |-> [state EXCEPT !.stream.msg = Z_NULL],
             next |-> state.stream.next_in,
             have |-> have,
             win |-> <<>>, mem |-> mem,
             shown |-> IF have > 0
                       THEN {state.stream.next_in[1] + i : i \in 0..(have - 1)}
                       ELSE {},
             seen |-> {}, eaten |-> 0, dup |-> FALSE])

\* -------------------------------------------------------------- lifecycle
\* btidy_deflate64_init that frees the window when the engine fails to bind
\* but keeps the pointer to it in the handle
btidy_deflate64_init_keeps_pointer(h, state, winOK, ctxOK) ==
  IF h = Z_NULL
  THEN [state |-> state, ret |-> Z_STREAM_ERROR, allocs |-> <<>>, frees |-> <<>>]
  ELSE IF ~winOK
  THEN [state |-> [state EXCEPT !.window = Z_NULL],
        ret |-> Z_MEM_ERROR, allocs |-> <<>>, frees |-> <<>>]
  ELSE LET s1 == [state EXCEPT !.window = "win",
                               !.stream.zalloc = "btidy_zalloc",
                               !.stream.zfree = "btidy_zfree"]
           b == inflateBack9Init(s1, ctxOK)
       IN IF b.ret # Z_OK
          THEN [state |-> b.state, ret |-> b.ret,
                allocs |-> <<"window">> \o b.allocs, frees |-> <<"window">>]
          ELSE [state |-> [b.state EXCEPT !.initialized = 1], ret |-> Z_OK,
                allocs |-> <<"window">> \o b.allocs, frees |-> <<>>]

\* btidy_deflate64_init that marks the handle initialized before the engine
\* has bound to the window
btidy_deflate64_init_marks_early(h, state, winOK, ctxOK) ==
  IF h = Z_NULL
  THEN [state |-> state, ret |-> Z_STREAM_ERROR, allocs |-> <<>>, frees |-> <<>>]
  ELSE IF ~winOK
  THEN [state |-> [state EXCEPT !.window = Z_NULL],
        ret |-> Z_MEM_ERROR, allocs |-> <<>>, frees |-> <<>>]
  ELSE LET s1 == [state EXCEPT !.window = "win",
                               !.stream.zalloc = "btidy_zalloc",
                               !.stream.zfree = "btidy_zfree",
                               !.initialized = 1]
           b == inflateBack9Init(s1, ctxOK)
       IN IF b.ret # Z_OK
          THEN [state |-> [b.state EXCEPT !.window = Z_NULL], ret |-> b.ret,
                allocs |-> <<"window">> \o b.allocs, frees |-> <<"window">>]
          ELSE [state |-> b.state, ret |-> Z_OK,
                allocs |-> <<"window">> \o b.allocs, frees |-> <<>>]

\* btidy_deflate64_init; winOK / ctxOK: whether the window and the engine
\* context can be allocated
btidy_deflate64_init(h, state, winOK, ctxOK) ==
  IF h = Z_NULL
  THEN [state |-> state, ret |-> Z_STREAM_ERROR, allocs |-> <<>>, frees |-> <<>>]
  ELSE IF ~winOK
  THEN [state |-> [state EXCEPT !.window = Z_NULL],
        ret |-> Z_MEM_ERROR, allocs |-> <<>>, frees |-> <<>>]
  ELSE LET s1 == [state EXCEPT !.window = "win",
                               !.stream.zalloc = "btidy_zalloc",
                               !.stream.zfree = "btidy_zfree"]
           b == inflateBack9Init(s1, ctxOK)
       IN IF b.ret # Z_OK
          THEN [state |-> [b.state EXCEPT !.window = Z_NULL], ret |-> b.ret,
                allocs |-> <<"window">> \o b.allocs, frees |-> <<"window">>]
          ELSE [state |-> [b.state EXCEPT !.initialized = 1], ret |-> Z_OK,
                allocs |-> <<"window">> \o b.allocs, frees |-> <<>>]

\* btidy_deflate64_free: what release frees, in order
btidy_deflate64_free(h, state) ==
  IF h = Z_NULL THEN [frees |-> <<>>, ended |-> FALSE]
  ELSE LET e == IF state.initialized # 0 THEN inflateBack9End(state)
                ELSE [state |-> state, ret |-> Z_OK, frees |-> <<>>]
       IN [frees |-> e.frees
                     \o (IF state.window # Z_NULL THEN <<"window">> ELSE <<>>)
                     \o <<"handle">>,
           ended |-> state.initialized # 0]

\* ----------------------------------------------------------------- driver
\* classification that tests input exhaustion before overflow
Classify_input_first(ret, output_overflow, input_used, input_len, input_eof) ==
  LET none == [status |-> ret, needs_input |-> 0, needs_output |-> 0, finished |-> 0]
  IN IF ret = Z_STREAM_END
     THEN [none EXCEPT !.finished = 1, !.status = Z_OK]
     ELSE IF ret = Z_BUF_ERROR /\ input_used = input_len
     THEN [none EXCEPT !.needs_input = 1,
                       !.status = IF input_eof THEN Z_DATA_ERROR ELSE Z_OK]
     ELSE IF ret = Z_BUF_ERROR /\ output_overflow # 0
     THEN [none EXCEPT !.needs_output = 1, !.status = Z_OK]
     ELSE none

\* classification that ignores input_eof
Classify_ignores_eof(ret, output_overflow, input_used, input_len, input_eof) ==
  LET none == [status |-> ret, needs_input |-> 0, needs_output |-> 0, finished |-> 0]
  IN IF ret = Z_STREAM_END
     THEN [none EXCEPT !.finished = 1, !.status = Z_OK]
     ELSE IF ret = Z_BUF_ERROR /\ output_overflow # 0
     THEN [none EXCEPT !.needs_output = 1, !.status = Z_OK]
     ELSE IF ret = Z_BUF_ERROR /\ input_used = input_len
     THEN [none EXCEPT !.needs_input = 1, !.status = Z_OK]
     ELSE none

\* classification that tests input exhaustion whatever the engine returned
Classify_any_status(ret, output_overflow, input_used, input_len, input_eof) ==
  LET none == [status |-> ret, needs_input |-> 0, needs_output |-> 0, finished |-> 0]
  IN IF ret = Z_STREAM_END
     THEN [none EXCEPT !.finished = 1, !.status = Z_OK]
     ELSE IF ret = Z_BUF_ERROR /\ output_overflow # 0
     THEN [none EXCEPT !.needs_output = 1, !.status = Z_OK]
     ELSE IF input_used = input_len
     THEN [none EXCEPT !.needs_input = 1,
                       !.status = IF input_eof THEN Z_DATA_ERROR ELSE Z_OK]
     ELSE none

\* classification whose overflow branch does not return
Classify_falls_through(ret, output_overflow, input_used, input_len, input_eof) ==
  LET none == [status |-> ret, needs_input |-> 0, needs_output |-> 0, finished |-> 0]
      ovf == ret = Z_BUF_ERROR /\ output_overflow # 0
      exh == ret = Z_BUF_ERROR /\ input_used = input_len
  IN IF ret = Z_STREAM_END
     THEN [none EXCEPT !.finished = 1, !.status = Z_OK]
     ELSE [status |-> IF exh THEN (IF input_eof THEN Z_DATA_ERROR ELSE Z_OK)
                      ELSE IF ovf THEN Z_OK ELSE ret,
           needs_input |-> IF exh THEN 1 ELSE 0,
           needs_output |-> IF ovf THEN 1 ELSE 0,
           finished |-> 0]

\* the outcome classification that follows the engine run
Classify(ret, output_overflow, input_used, input_len, input_eof) ==
  LET none == [status |-> ret, needs_input |-> 0, needs_output |-> 0, finished |-> 0]
  IN IF ret = Z_STREAM_END
     THEN [none EXCEPT !.finished = 1, !.status = Z_OK]
     ELSE IF ret = Z_BUF_ERROR /\ output_overflow # 0
     THEN [none EXCEPT !.needs_output = 1, !.status = Z_OK]
     ELSE IF ret = Z_BUF_ERROR /\ input_used = input_len
     THEN [none EXCEPT !.needs_input = 1,
                       !.status = IF input_eof THEN Z_DATA_ERROR ELSE Z_OK]
     ELSE none

\* binding that leaves the overflow flag as the previous call left it
Bind_keeps_overflow(state, input_len, output_len) ==
  [state EXCEPT !.input = "in", !.input_len = input_len, !.input_offset = 0,
                !.output = Blank(output_len), !.output_len = output_len,
                !.output_offset = 0,
                !.stream.next_in = <<0>>,
                !.stream.avail_in = IF input_len > UINT_MAX THEN UINT_MAX ELSE input_len,
                !.oob = FALSE, !.offered = <<>>,
                !.eaten = 0, !.distinct = 0, !.dup = FALSE]

\* binding of the call's buffers into the handle, before the engine runs
Bind(state, input_len, output_len) ==
  [state EXCEPT !.input = "in", !.input_len = input_len, !.input_offset = 0,
                !.output = Blank(output_len), !.output_len = output_len,
                !.output_offset = 0, !.output_overflow = 0,
                !.stream.next_in = <<0>>,
                !.stream.avail_in = IF input_len > UINT_MAX THEN UINT_MAX ELSE input_len,
                !.oob = FALSE, !.offered = <<>>,
                !.eaten = 0, !.distinct = 0, !.dup = FALSE]

\* btidy_deflate64_inflate that tests only the handle for null
btidy_deflate64_inflate_unchecked_outs(h, state, input, input_len, input_eof, output_len, outs_ok) ==
  IF h = Z_NULL
  THEN [state |-> state, wrote |-> FALSE, status |-> Z_STREAM_ERROR]
  ELSE LET e == inflateBack9(Bind(state, input_len, output_len), input)
           input_used == input_len - e.state.stream.avail_in
           c == Classify(e.ret, e.state.output_overflow, input_used, input_len, input_eof)
       IN [state |-> e.state, wrote |-> TRUE, status |-> c.status,
           input_used |-> input_used,
           output_used |-> e.state.output_offset,
           needs_input |-> c.needs_input,
           needs_output |-> c.needs_output,
           finished |-> c.finished,
           engine_ret |-> e.ret, stop |-> e.stop]

\* btidy_deflate64_inflate; outs_ok: none of the out-parameters is null.
\* wrote: the out-parameters were written
btidy_deflate64_inflate(h, state, input, input_len, input_eof, output_len, outs_ok) ==
  IF h = Z_NULL \/ ~outs_ok
  THEN [state |-> state, wrote |-> FALSE, status |-> Z_STREAM_ERROR]
  ELSE LET e == inflateBack9(Bind(state, input_len, output_len), input)
           input_used == input_len - e.state.stream.avail_in
           c == Classify(e.ret, e.state.output_overflow, input_used, input_len, input_eof)
       IN [state |-> e.state, wrote |-> TRUE, status |-> c.status,
           input_used |-> input_used,
           output_used |-> e.state.output_offset,
           needs_input |-> c.needs_input,
           needs_output |-> c.needs_output,
           finished |-> c.finished,
           engine_ret |-> e.ret, stop |-> e.stop]

\* ---------------------------------------------------------- error text
\* btidy_deflate64_error_message whose switch has no default branch
btidy_deflate64_error_message_no_default(h, state, code) ==
  IF h # Z_NULL /\ state.stream.msg # Z_NULL THEN state.stream.msg
  ELSE IF code = Z_DATA_ERROR THEN "invalid deflate64 stream"
  ELSE IF code = Z_MEM_ERROR THEN "insufficient memory"
  ELSE IF code = Z_STREAM_ERROR THEN "invalid stream state"
  ELSE IF code = Z_BUF_ERROR THEN "insufficient input or output buffer"
  ELSE Z_NULL

\* btidy_deflate64_error_message: the text for a status code
btidy_deflate64_error_message(h, state, code) ==
  IF h # Z_NULL /\ state.stream.msg # Z_NULL THEN state.stream.msg
  ELSE IF code = Z_DATA_ERROR THEN "invalid deflate64 stream"
  ELSE IF code = Z_MEM_ERROR THEN "insufficient memory"
  ELSE IF code = Z_STREAM_ERROR THEN "invalid stream state"
  ELSE IF code = Z_BUF_ERROR THEN "insufficient input or output buffer"
  ELSE "unknown deflate64 error"

\* ------------------------------------------------------------------ state
VARIABLES
  phase,     \* "start": no handle yet; "created": new has returned; "freed"
  h,         \* the handle new returned: "h", or Z_NULL when calloc failed
  state,     \* the struct the handle points to
  init_how,  \* how init went: "none", "null", "window_fail", "bind_fail", "ok"
  heap,      \* per heap object, how often it was allocated and freed
  res,       \* the caller's view of the last inflate call
  sess,      \* the streaming caller's decoding session
  op,        \* the public operation that returned last
  init_ret,  \* the status init returned, "none" before init
  hk,        \* the last hook call made on the handle, as the engine sees it
  emsg       \* the last btidy_deflate64_error_message call

vars == <<phase, h, state, init_how, heap, res, sess, op, init_ret, hk, emsg>>

Obj == {"handle", "window", "engine"}

Count(seq, o) == Cardinality({i \in 1..Len(seq) : seq[i] = o})

\* the heap after the allocations and frees of one operation
HeapAfter(hp, allocs, frees) ==
  [alloc |-> [o \in Obj |-> hp.alloc[o] + Count(allocs, o)],
   free |-> [o \in Obj |-> hp.free[o] + Count(frees, o)]]

NoRes ==
  [called |-> FALSE, wrote |-> FALSE, status |-> Z_OK,
   input_used |-> 0, output_used |-> 0,
   needs_input |-> 0, needs_output |-> 0, finished |-> 0,
   input_len |-> 0, output_len |-> 0, input_eof |-> FALSE, output |-> <<>>,
   engine_ret |-> Z_OK, stop |-> "none", overflow |-> 0, oob |-> FALSE,
   offered |-> <<>>, inited |-> 0,
   \* args_ok: the handle and all out-parameters were non-null;
   \* stale: the overflow flag the handle carried into the call
   args_ok |-> TRUE, stale |-> 0,
   eaten |-> 0, distinct |-> 0, dup |-> FALSE]

\* what the caller sees after the call r == btidy_deflate64_inflate(...)
ResAfter(prev, r, input_len, input_eof, output_len, inited, args_ok, stale) ==
  IF ~r.wrote
  THEN \* only the return value reaches the caller
       [prev EXCEPT !.called = TRUE, !.wrote = FALSE, !.status = r.status,
                    !.args_ok = args_ok]
  ELSE [called |-> TRUE, wrote |-> TRUE, status |-> r.status,
        input_used |-> r.input_used, output_used |-> r.output_used,
        needs_input |-> r.needs_input, needs_output |-> r.needs_output,
        finished |-> r.finished,
        input_len |-> input_len, output_len |-> output_len, input_eof |-> input_eof,
        output |-> r.state.output,
        engine_ret |-> r.engine_ret, stop |-> r.stop,
        overflow |-> r.state.output_overflow, oob |-> r.state.oob,
        offered |-> r.state.offered, inited |-> inited,
        args_ok |-> args_ok, stale |-> stale,
        eaten |-> r.state.eaten, distinct |-> r.state.distinct, dup |-> r.state.dup]

NoSess ==
  [B |-> <<>>, pos |-> 0, collected |-> <<>>, status |-> "idle", nCalls |-> 0,
   chunked |-> FALSE, sawNeedsOutput |-> FALSE, fullOut |-> TRUE,
   firstEof |-> FALSE, firstUsedAll |-> FALSE, lastEof |-> FALSE]

\* no hook has been called: c and c1 are the cursor before and after the call,
\* slice and n what the pull hook returned, offer and len what the push hook
\* was handed, r what it returned, before and after the output buffer,
\* ovf0 and ovf1 the overflow flag, pulled the bytes all pulls have returned
NoHook ==
  [kind |-> "none", c |-> 0, c1 |-> 0, slice |-> NO_INPUT, n |-> 0,
   offer |-> <<>>, len |-> 0, r |-> 0, before |-> <<>>, after |-> <<>>,
   ovf0 |-> 0, ovf1 |-> 0, pulled |-> 0]

\* error_message has not been called: carried is whether the handle carried
\* engine text, msg that text
NoMsg ==
  [called |-> FALSE, code |-> Z_OK, text |-> Z_NULL, carried |-> FALSE,
   msg |-> Z_NULL]

InitCommon ==
  /\ hk = NoHook
  /\ emsg = NoMsg
  /\ phase = "start"
  /\ h = Z_NULL
  /\ state = ZeroState
  /\ init_how = "none"
  /\ heap = [alloc |-> [o \in Obj |-> 0], free |-> [o \in Obj |-> 0]]
  /\ res = NoRes
  /\ op = "none"
  /\ init_ret = "none"

Init == InitCommon /\ sess = NoSess

\* ---------------------------------------------------------------- actions
\* btidy_deflate64_new: calloc of a zeroed handle, which may fail
New ==
  /\ phase = "start"
  /\ \E ok \in BOOLEAN :
       /\ h' = IF ok THEN "h" ELSE Z_NULL
       /\ heap' = HeapAfter(heap, IF ok THEN <<"handle">> ELSE <<>>, <<>>)
  /\ state' = ZeroState
  /\ phase' = "created"
  /\ op' = "new"
  /\ UNCHANGED <<init_how, res, sess, init_ret, hk, emsg>>

\* btidy_deflate64_init, called at most once per handle
Initialize ==
  /\ phase = "created"
  /\ init_how = "none"
  /\ \E winOK \in BOOLEAN, ctxOK \in BOOLEAN :
       LET r == btidy_deflate64_init(h, state, winOK, ctxOK)
       IN /\ state' = r.state
          /\ heap' = HeapAfter(heap, r.allocs, r.frees)
          /\ init_ret' = r.ret
          /\ init_how' = IF h = Z_NULL THEN "null"
                         ELSE IF ~winOK THEN "window_fail"
                         ELSE IF r.ret # Z_OK THEN "bind_fail"
                         ELSE "ok"
  /\ op' = "init"
  /\ UNCHANGED <<phase, h, res, sess, hk, emsg>>

\* one btidy_deflate64_inflate call
InflateCall(input, input_eof, output_len, outs_ok) ==
  LET r == btidy_deflate64_inflate(h, state, input, Len(input), input_eof,
                                   output_len, outs_ok)
  IN /\ state' = r.state
     /\ res' = ResAfter(res, r, Len(input), input_eof, output_len, state.initialized,
                        h # Z_NULL /\ outs_ok, state.output_overflow)

\* the input buffers of the free-running caller: literals, then possibly an
\* end symbol or an invalid code, then any further bytes.  The engine leaves
\* its run at the first end symbol or invalid code and never decodes what
\* follows it, so literals stand for the bytes that follow (and one literal
\* value is enough, the calls' outcomes do not depend on which literal it is)
CallInputs ==
  {[i \in 1..n |-> "a"] : n \in 0..MaxIn} \cup
  UNION {{[i \in 1..k |-> "a"] \o <<t>> \o [i \in 1..j |-> "a"] :
            j \in 0..(MaxIn - 1 - k), t \in {END, BAD}} : k \in 0..(MaxIn - 1)}

\* inflate with arbitrary buffers, on any handle new has returned
Inflate ==
  /\ phase = "created"
  /\ \E input \in CallInputs, input_eof \in BOOLEAN, output_len \in 0..MaxOut :
       InflateCall(input, input_eof, output_len, TRUE)
  /\ op' = "inflate"
  /\ UNCHANGED <<phase, h, init_how, heap, sess, init_ret, hk, emsg>>

\* inflate with a null out-parameter
InflateNullOut ==
  /\ phase = "created"
  /\ \E n \in 0..MaxIn, output_len \in 0..MaxOut :
       InflateCall([i \in 1..n |-> "a"], FALSE, output_len, FALSE)
  /\ op' = "inflate"
  /\ UNCHANGED <<phase, h, init_how, heap, sess, init_ret, hk, emsg>>

\* btidy_deflate64_free, called at most once per handle
Free ==
  /\ phase = "created"
  /\ heap' = HeapAfter(heap, <<>>, btidy_deflate64_free(h, state).frees)
  /\ phase' = "freed"
  /\ op' = "free"
  /\ UNCHANGED <<h, state, init_how, res, sess, init_ret, hk, emsg>>

Next == New \/ Initialize \/ Inflate \/ InflateNullOut \/ Free

Spec == Init /\ [][Next]_vars

\* ------------------------------------------------------ streaming caller
\* A caller that decodes one valid stream B: it hands inflate the next chunk
\* of B, starting at the first byte inflate has not reported as used, asserts
\* input_is_final when the chunk reaches the end of B, collects
\* output[0..output_used) and stops at finished or at an error status.
InitCaller ==
  /\ InitCommon
  /\ \E B \in ValidStreams : sess = [NoSess EXCEPT !.B = B, !.status = "running"]

Feed ==
  /\ phase = "created"
  /\ init_how = "ok"
  /\ sess.status = "running"
  /\ sess.nCalls < MaxCalls
  /\ \E n \in 0..(Len(sess.B) - sess.pos), output_len \in 1..MaxOut :
       LET chunk == SubSeq(sess.B, sess.pos + 1, sess.pos + n)
           eof == (sess.pos + n = Len(sess.B))
           r == btidy_deflate64_inflate(h, state, chunk, n, eof, output_len, TRUE)
       IN /\ state' = r.state
          /\ res' = ResAfter(res, r, n, eof, output_len, state.initialized,
                             TRUE, state.output_overflow)
          /\ sess' = [sess EXCEPT
                !.pos = @ + r.input_used,
                !.collected = @ \o SubSeq(r.state.output, 1, r.output_used),
                !.status = IF r.finished = 1 THEN "finished"
                           ELSE IF r.status # Z_OK THEN "error" ELSE "running",
                !.nCalls = @ + 1,
                !.chunked = @ \/ ~eof,
                !.sawNeedsOutput = @ \/ r.needs_output = 1,
                !.fullOut = @ /\ output_len = MaxOut,
                !.firstEof = IF sess.nCalls = 0 THEN eof ELSE @,
                !.firstUsedAll = IF sess.nCalls = 0 THEN r.input_used = n ELSE @,
                !.lastEof = eof]
  /\ op' = "inflate"
  /\ UNCHANGED <<phase, h, init_how, heap, init_ret, hk, emsg>>

NextCaller == New \/ Initialize \/ Feed \/ Free

SpecCaller == InitCaller /\ [][NextCaller]_vars

\* the output of decoding B in one call on a freshly initialized handle
SingleDecode(B) ==
  LET fresh == btidy_deflate64_init("h", ZeroState, TRUE, TRUE).state
      r == btidy_deflate64_inflate("h", fresh, B, Len(B), TRUE, MaxOut, TRUE)
  IN SubSeq(r.state.output, 1, r.output_used)

\* ----------------------------------------------------------------- claims
\* C1: no overrun.  After every inflate call that reports its counts,
\* output_used <= output_len and input_used <= input_len, and the push hook
\* has written at no index >= output_len of the caller's output buffer.
C1_NoOverrun ==
  res.wrote =>
    /\ res.output_used >= 0 /\ res.output_used <= res.output_len
    /\ res.input_used >= 0 /\ res.input_used <= res.input_len
    /\ ~res.oob
    /\ Len(res.output) = res.output_len

\* a call in which the engine offered more than the output buffer holds
C1_Witness ==
  /\ res.wrote
  /\ res.output_len > 0
  /\ Len(res.offered) > res.output_len
  /\ res.output_used = res.output_len

\* C2: overflow priority.  When the engine run ends with Z_BUF_ERROR and the
\* push hook signalled overflow in the call, inflate returns Ok with
\* needs_output and without needs_input, whatever input_used and
\* input_is_final are.
C2_OverflowPriority ==
  (res.wrote /\ res.engine_ret = Z_BUF_ERROR /\ res.overflow # 0) =>
    /\ res.status = Z_OK
    /\ res.needs_output = 1
    /\ res.needs_input = 0

\* overflow in a run that also used up all the supplied, final input
C2_Witness ==
  /\ res.wrote /\ res.engine_ret = Z_BUF_ERROR /\ res.overflow # 0
  /\ res.input_len > 0 /\ res.input_used = res.input_len
  /\ res.input_eof
  /\ res.needs_output = 1

\* C3: truncation detection.  When the engine stops because the pull hook
\* has no more input (all supplied input consumed, stream end not reached)
\* and there was no overflow, inflate returns DataError if input_is_final was
\* asserted, and Ok with needs_input otherwise.
C3_Truncation ==
  (res.wrote /\ res.stop = "in" /\ res.overflow = 0) =>
    /\ res.input_eof => res.status = Z_DATA_ERROR
    /\ ~res.input_eof => (res.status = Z_OK /\ res.needs_input = 1)

\* a truncated final input
C3_Witness ==
  /\ res.wrote /\ res.stop = "in" /\ res.overflow = 0
  /\ res.input_len > 0 /\ res.input_eof
  /\ res.status = Z_DATA_ERROR

\* C4: inflate on a handle that is not initialized (init never called, or
\* failed) returns InvalidState, produces no output and sets no flag.
C4_UninitializedInflate ==
  (res.wrote /\ res.inited = 0) =>
    /\ res.status = Z_STREAM_ERROR
    /\ res.output_used = 0
    /\ res.output = Blank(res.output_len)
    /\ res.offered = <<>>
    /\ res.finished = 0 /\ res.needs_input = 0 /\ res.needs_output = 0

\* inflate with input and output space on a handle whose init failed at the
\* engine bind
C4_Witness ==
  /\ res.wrote /\ res.inited = 0
  /\ init_how = "bind_fail"
  /\ res.input_len > 0 /\ res.output_len > 0
  /\ res.status = Z_STREAM_ERROR

\* C5: release safety.  Nothing is freed that was not allocated, nothing is
\* freed twice, the engine context is freed only after a successful init,
\* and after release everything allocated has been freed; release of a null
\* handle frees nothing.
C5_ReleaseSafety ==
  /\ \A o \in Obj : heap.free[o] <= heap.alloc[o] /\ heap.alloc[o] <= 1
  /\ heap.free["engine"] > 0 => init_how = "ok"
  /\ phase = "freed" => \A o \in Obj : heap.free[o] = heap.alloc[o]
  /\ (phase = "freed" /\ h = Z_NULL) => \A o \in Obj : heap.free[o] = 0

\* release after an init that failed at the engine bind and after inflate calls
C5_Witness ==
  /\ phase = "freed"
  /\ init_how = "bind_fail"
  /\ res.wrote
  /\ heap.alloc["window"] = 1 /\ heap.free["window"] = 1
  /\ heap.free["handle"] = 1

\* C9: after every inflate call that writes its out-parameters at most one of
\* finished, needs_input and needs_output is true.
C9_Exclusive ==
  res.wrote => res.finished + res.needs_input + res.needs_output <= 1

\* overflow and input exhaustion coincide in a call with non-final input
C9_Witness ==
  /\ res.wrote /\ res.overflow # 0
  /\ res.input_len > 0 /\ res.input_used = res.input_len
  /\ ~res.input_eof
  /\ res.needs_output = 1 /\ res.needs_input = 0 /\ res.finished = 0

\* C10: every inflate call that returns a status other than Ok has finished,
\* needs_input and needs_output all false; needs_input is reported only with
\* status Ok.
C10_ErrorsCarryNoFlags ==
  res.wrote =>
    /\ res.status # Z_OK =>
         (res.finished = 0 /\ res.needs_input = 0 /\ res.needs_output = 0)
    /\ res.needs_input = 1 => res.status = Z_OK

\* C6: round trip under chunking.  A session that feeds a valid stream in
\* chunks and never ran out of output space ends with finished, and the
\* collected output is the payload.
C6_RoundTripChunked ==
  (sess.status \in {"finished", "error"} /\ ~sess.sawNeedsOutput) =>
    (sess.status = "finished" /\ sess.collected = Payload(sess.B))

\* C7: resumability.  Decoding B[0..k) without input_is_final and then
\* B[k..) in a second call yields, concatenated, the output of decoding B in
\* one call.
C7_Resumable ==
  (sess.nCalls = 2 /\ ~sess.firstEof /\ sess.firstUsedAll /\ sess.lastEof
     /\ sess.fullOut) =>
    sess.collected = SingleDecode(sess.B)

\* C8: no output lost across a needs_output resumption.  A session that
\* hands inflate all of its remaining input on every call and drains the
\* output after needs_output has, when it ends, collected the payload.
C8_NoOutputLost ==
  (sess.status \in {"finished", "error"} /\ ~sess.chunked /\ sess.sawNeedsOutput) =>
    sess.collected = Payload(sess.B)

\* C11: initialize returns only Ok, MemoryError or InvalidState; when the
\* window allocation or the engine bind fails it returns MemoryError, no
\* window remains allocated and the handle stays un-initialized; the handle
\* is initialized only if initialize returned Ok.
C11_InitOutcome ==
  /\ init_ret \in {"none", Z_OK, Z_MEM_ERROR, Z_STREAM_ERROR}
  /\ init_how \in {"window_fail", "bind_fail"} =>
       /\ init_ret = Z_MEM_ERROR
       /\ state.window = Z_NULL
       /\ heap.alloc["window"] = heap.free["window"]
       /\ state.initialized = 0
  /\ state.initialized # 0 => init_ret = Z_OK
  /\ init_how = "ok" <=> init_ret = Z_OK

\* initialize has just failed at the engine bind
C11_Witness ==
  /\ op = "init"
  /\ init_how = "bind_fail"
  /\ init_ret = Z_MEM_ERROR
  /\ heap.alloc["window"] = 1

\* C13: an inflate call with a null handle or a null out-parameter returns
\* InvalidState, does not run the engine or a hook, and leaves the handle
\* and the out-parameters as they were.
C13_InvalidArguments ==
  [][(op' = "inflate" /\ ~res'.args_ok) =>
       /\ res'.status = Z_STREAM_ERROR
       /\ ~res'.wrote
       /\ state' = state
       /\ res' = [res EXCEPT !.called = TRUE, !.wrote = FALSE,
                             !.status = Z_STREAM_ERROR, !.args_ok = FALSE]
       /\ heap' = heap]_vars

\* a call with a null out-parameter on an initialized handle, after a call
\* that had reported counts
C13_Witness ==
  /\ op = "inflate"
  /\ ~res.args_ok
  /\ h # Z_NULL /\ state.initialized = 1
  /\ res.input_len > 0 /\ res.input_used > 0
  /\ res.status = Z_STREAM_ERROR

\* C16: between public operations, with initialize called at most once, the
\* window is allocated if and only if initialized is set, and there is an
\* engine context only while initialized is set.
C16_WindowIffInitialized ==
  (phase = "created" /\ h # Z_NULL) =>
    /\ state.window # Z_NULL <=> state.initialized # 0
    /\ heap.alloc["window"] - heap.free["window"] = 1 <=> state.initialized # 0
    /\ state.stream.state # Z_NULL => state.initialized # 0
    /\ heap.alloc["engine"] - heap.free["engine"] = 1 => state.initialized # 0

\* an initialized handle after an inflate call that ran the engine
C16_Witness ==
  /\ phase = "created"
  /\ op = "inflate"
  /\ state.initialized = 1 /\ state.window # Z_NULL
  /\ res.wrote /\ res.inited = 1

\* C12: progress accounting.  After every inflate call that ran the engine,
\* input_used is the number of bytes of the call's input the engine has
\* consumed (input_len minus the bytes it has not consumed), and output_used
\* is the output cursor at the end of the call; also when input_len exceeds
\* UINT_MAX.
C12_ProgressAccounting ==
  (op = "inflate" /\ res.wrote /\ res.stop \notin {"none", "nostate"}) =>
    /\ res.input_used = res.distinct
    /\ res.output_used = state.output_offset

\* C15: each byte of a call's input is made available to the engine at most
\* once: the pre-loaded stream input and the slices of the pull hook never
\* present the same position twice, so the engine consumes no more than
\* input_len bytes in one call.
C15_InputPresentedOnce ==
  res.wrote =>
    /\ ~res.dup
    /\ res.eaten <= res.input_len

\* C19: the overflow flag is per-call state.  A call that passes argument
\* validation starts with the flag cleared and both cursors at zero; the flag
\* is set at the end of the call exactly if the push hook cut an offer short
\* during the call; so needs_output is reported only if the push hook
\* overflowed in that same call.
C19_OverflowPerCall ==
  res.wrote =>
    /\ res.needs_output = 1 => Len(res.offered) > res.output_used
    /\ Len(res.offered) > res.output_used <=> res.overflow # 0
    /\ (op = "inflate" /\ res.args_ok /\ res.stop = "nostate") =>
         /\ state.input_offset = 0
         /\ state.output_offset = 0
         /\ state.output_overflow = 0

\* a call without overflow that ends for lack of input, on a handle that
\* carried a set overflow flag from the previous call
C19_Witness ==
  /\ res.wrote
  /\ res.stale # 0
  /\ res.engine_ret = Z_BUF_ERROR
  /\ res.overflow = 0
  /\ res.needs_output = 0 /\ res.needs_input = 1

\* C20: a call that reports needs_output has filled the output buffer, a call
\* that reports needs_input has used all its input; so a call with non-empty
\* input and output that returns Ok without finished has made progress.
C20_SignalsImplyFullBuffer ==
  res.wrote =>
    /\ res.needs_output = 1 => res.output_used = res.output_len
    /\ res.needs_input = 1 => res.input_used = res.input_len
    /\ (res.status = Z_OK /\ res.finished = 0 /\ res.input_len > 0
          /\ res.output_len > 0) =>
         (res.input_used > 0 \/ res.output_used > 0)

\* needs_output with a filled output buffer and input left over
C20_Witness ==
  /\ res.wrote
  /\ res.needs_output = 1
  /\ res.output_len > 0 /\ res.output_used = res.output_len
  /\ res.input_used < res.input_len

\* ------------------------------------------------------- the hooks alone
\* The hooks as the engine may call them inside one inflate call: the handle
\* is initialized and the call's buffers are bound; the engine pulls input
\* and offers output in any order, and makes no further offer once the push
\* hook has told it to stop.
MaxOffer == 3

Offers == SeqUpTo(Lit, MaxOffer)

InitHooks ==
  /\ phase = "created"
  /\ h = "h"
  /\ init_how = "ok"
  /\ init_ret = Z_OK
  /\ heap = [alloc |-> [o \in Obj |-> 1], free |-> [o \in Obj |-> 0]]
  /\ res = NoRes
  /\ sess = NoSess
  /\ op = "init"
  /\ hk = NoHook
  /\ emsg = NoMsg
  /\ \E input_len \in 0..MaxIn, output_len \in 0..MaxOut :
       state = Bind(btidy_deflate64_init("h", ZeroState, TRUE, TRUE).state,
                    input_len, output_len)

\* the engine calls the pull hook
PullHook ==
  /\ phase = "created"
  /\ LET r == btidy_infback9_in(state)
     IN /\ state' = r.state
        /\ hk' = [hk EXCEPT !.kind = "in",
                            !.c = state.input_offset,
                            !.c1 = r.state.input_offset,
                            !.slice = r.buf, !.n = r.n,
                            !.pulled = @ + r.n]
  /\ UNCHANGED <<phase, h, init_how, heap, res, sess, op, init_ret, emsg>>

\* the engine offers the push hook up to MaxOffer bytes of its window
PushHook ==
  /\ phase = "created"
  /\ state.output_overflow = 0
  /\ \E buf \in Offers :
       LET r == btidy_infback9_out(state, buf, Len(buf))
       IN /\ state' = r.state
          /\ hk' = [hk EXCEPT !.kind = "out",
                              !.c = state.output_offset,
                              !.c1 = r.state.output_offset,
                              !.offer = buf, !.len = Len(buf), !.r = r.r,
                              !.before = state.output,
                              !.after = r.state.output,
                              !.ovf0 = state.output_overflow,
                              !.ovf1 = r.state.output_overflow]
  /\ UNCHANGED <<phase, h, init_how, heap, res, sess, op, init_ret, emsg>>

NextHooks == PullHook \/ PushHook

SpecHooks == InitHooks /\ [][NextHooks]_vars

\* C17: push hook step.  For every offer of len bytes with the output cursor
\* at c <= output_len, the hook copies exactly n = min(len, output_len - c)
\* bytes to output positions c .. c+n-1 and leaves every other byte as it
\* was, advances the cursor by n, and returns nonzero and sets the overflow
\* flag if and only if n < len; an offer that exactly fills the buffer does
\* not signal overflow.
C17_PushStep ==
  (hk.kind = "out" /\ hk.c <= state.output_len) =>
    LET n == Min(hk.len, state.output_len - hk.c)
    IN /\ hk.c1 = hk.c + n
       /\ Len(hk.after) = state.output_len
       /\ \A i \in 1..state.output_len :
            hk.after[i] = IF i > hk.c /\ i <= hk.c + n THEN hk.offer[i - hk.c]
                          ELSE hk.before[i]
       /\ (hk.r # 0) <=> (n < hk.len)
       /\ hk.ovf1 = (IF n < hk.len THEN 1 ELSE hk.ovf0)
       /\ (hk.len > 0 /\ hk.c + hk.len = state.output_len) => (hk.r = 0 /\ hk.ovf1 = 0)

\* an offer that exactly fills a buffer which already holds earlier bytes
C17_Witness ==
  /\ hk.kind = "out"
  /\ hk.c > 0 /\ hk.len > 0
  /\ hk.c + hk.len = state.output_len
  /\ hk.r = 0 /\ state.output_overflow = 0

\* C18: pull hook sequence.  Within one call the slices the pull hook returns
\* are contiguous, non-overlapping and in input order (each starts where the
\* bytes returned so far end), each is at most UINT_MAX long and lies wholly
\* inside [0, input_len); the input cursor advances by exactly the returned
\* length, and once the cursor has reached input_len every further pull
\* returns length zero and a null slice.
C18_PullSequence ==
  /\ state.input_offset = hk.pulled
  /\ hk.kind = "in" =>
       IF hk.c >= state.input_len
       THEN hk.n = 0 /\ hk.slice = NO_INPUT /\ hk.c1 = hk.c
       ELSE /\ hk.slice = <<hk.c>>
            /\ hk.c = hk.pulled - hk.n
            /\ hk.n >= 1 /\ hk.n <= UINT_MAX
            /\ hk.c + hk.n <= state.input_len
            /\ hk.c1 = hk.c + hk.n

\* the second slice of an input longer than one transfer, up to its end
C18_Witness ==
  /\ hk.kind = "in"
  /\ hk.c = UINT_MAX /\ hk.n > 0
  /\ hk.c1 = state.input_len

\* ------------------------------------------------------ error text lookup
\* A caller that asks for the text of any status code on any handle new has
\* returned, between inflate calls on short inputs (a short input is enough
\* to make the engine leave diagnostic text on the handle, or clear it).
MaxMsgIn == 1

Codes ==
  {Z_OK, Z_STREAM_END, Z_NEED_DICT, Z_ERRNO, Z_STREAM_ERROR, Z_DATA_ERROR,
   Z_MEM_ERROR, Z_BUF_ERROR, Z_VERSION_ERROR}

InflateShort ==
  /\ phase = "created"
  /\ \E input \in SeqUpTo({"a", END, BAD}, MaxMsgIn), input_eof \in BOOLEAN,
        output_len \in 0..MaxOut :
       InflateCall(input, input_eof, output_len, TRUE)
  /\ op' = "inflate"
  /\ UNCHANGED <<phase, h, init_how, heap, sess, init_ret, hk, emsg>>

ErrorMessage ==
  /\ phase = "created"
  /\ \E code \in Codes :
       emsg' = [called |-> TRUE, code |-> code,
                text |-> btidy_deflate64_error_message(h, state, code),
                carried |-> (h # Z_NULL /\ state.stream.msg # Z_NULL),
                msg |-> state.stream.msg]
  /\ op' = "error_message"
  /\ UNCHANGED <<phase, h, state, init_how, heap, res, sess, init_ret, hk>>

NextMsg == New \/ Initialize \/ InflateShort \/ ErrorMessage \/ Free

SpecMsg == Init /\ [][NextMsg]_vars

\* C14: error resolver totality.  For every handle (null, uninitialized,
\* carrying engine text or not) and every status code, error_message returns
\* a non-null, non-empty text: the engine's text when the handle carries one,
\* and otherwise a fixed string that depends on the status category alone
\* (corrupt stream, out of memory, invalid state, insufficient buffer), with
\* one generic message for every other code.
C14_ErrorMessageTotal ==
  emsg.called =>
    /\ emsg.text # Z_NULL /\ emsg.text # ""
    /\ emsg.carried => emsg.text = emsg.msg
    /\ ~emsg.carried =>
         /\ (emsg.code = Z_DATA_ERROR) <=> (emsg.text = "invalid deflate64 stream")
         /\ (emsg.code = Z_MEM_ERROR) <=> (emsg.text = "insufficient memory")
         /\ (emsg.code = Z_STREAM_ERROR) <=> (emsg.text = "invalid stream state")
         /\ (emsg.code = Z_BUF_ERROR) <=>
              (emsg.text = "insufficient input or output buffer")
         /\ (emsg.code \notin {Z_DATA_ERROR, Z_MEM_ERROR, Z_STREAM_ERROR, Z_BUF_ERROR})
              <=> (emsg.text = "unknown deflate64 error")

\* a code without a text of its own, asked on a handle that carries no
\* engine text after an inflate call
C14_Witness ==
  /\ emsg.called
  /\ h # Z_NULL /\ res.wrote
  /\ ~emsg.carried
  /\ emsg.code = Z_VERSION_ERROR
  /\ emsg.text = "unknown deflate64 error"

====
